---- MODULE Spec2Model ----
(***************************************************************************)
(* A model of the ungram grammar-analysis tool: the logos token scanner    *)
(* (token.rs), the lookahead ring (ring.rs) and Lexer (lexer.rs), the      *)
(* event-log recursive-descent parser (parser.rs), the GrammarBuilder and  *)
(* the FIRST / FOLLOW computations (grammar.rs).                           *)
(*                                                                         *)
(* Source text is a sequence of one-character strings.  Spans are byte     *)
(* offsets [start, end) as in span.rs (0-based, half open).                *)
(***************************************************************************)
EXTENDS Integers, Sequences, FiniteSets, TLC

VARIABLES
    input,      \* how the source text was put together (lexemes, terms, rules)
    source,     \* the source text handed to Lexer::new / Parser::new
    lexer,      \* a stand-alone Lexer<LOOKUP> (as in lexer.rs test_ring), or NoLexer
    advances,   \* number of advance() calls made on `lexer` after Lexer::new
    pc,         \* position of the main.rs pipeline
    events,     \* Parser.events after parse()
    tree,       \* the Tree returned by Parser::tree
    rules,      \* Grammar.rules: sequence of [name, expr] in declaration order
    query,      \* the last analysis call made: [op, nt, strict]
    result      \* what that call produced: [st, set]

vars == <<input, source, lexer, advances, pc, events, tree, rules, query, result>>

-----------------------------------------------------------------------------
(* Small helpers over sequences and sets.                                  *)

Range(s) == {s[i] : i \in 1..Len(s)}

RECURSIVE Flatten(_)
Flatten(ss) == IF ss = <<>> THEN <<>> ELSE Head(ss) \o Flatten(Tail(ss))

\* byte slice source[start..end) of span.rs Span::range
Slice(src, start, end) == SubSeq(src, start + 1, end)

-----------------------------------------------------------------------------
(* token.rs: the logos scanner                                             *)

Whitespace == {" ", "\t", "\r", "\n"}
IdentChars == {"A", "B", "C", "Z", "S", "a", "b", "d", "_", "0", "1"}

Span(start, end) == [start |-> start, end |-> end]
Token(span, kind) == [span |-> span, kind |-> kind]

\* end offset of the maximal run of characters of `set` starting at offset i
RECURSIVE RunEnd(_, _, _)
RunEnd(src, i, set) ==
    IF i < Len(src) /\ src[i + 1] \in set THEN RunEnd(src, i + 1, set) ELSE i

\* end offset of the run of characters other than `stop` starting at offset i
RECURSIVE RunUntil(_, _, _)
RunUntil(src, i, stop) ==
    IF i < Len(src) /\ src[i + 1] /= stop THEN RunUntil(src, i + 1, stop) ELSE i

\* #[regex("[ \t\r\n]+", logos::skip)] and #[regex("//.*", logos::skip)]
RECURSIVE SkipTrivia(_, _)
SkipTrivia(src, i) ==
    IF i >= Len(src) THEN i
    ELSE IF src[i + 1] \in Whitespace THEN SkipTrivia(src, RunEnd(src, i, Whitespace))
    ELSE IF src[i + 1] = "/" /\ i + 1 < Len(src) /\ src[i + 2] = "/"
         THEN SkipTrivia(src, RunUntil(src, i + 2, "\n"))
    ELSE i

Punct == [c \in {"=", ":", "*", "?", "(", ")", "|"} |->
            CASE c = "=" -> "Equal"
              [] c = ":" -> "Colon"
              [] c = "*" -> "Star"
              [] c = "?" -> "Question"
              [] c = "(" -> "ParenOpen"
              [] c = ")" -> "ParenClose"
              [] c = "|" -> "Pipe"]

\* One step of token::Kind::lexer(source).spanned(): the token that starts at
\* or after offset i, or none at the end of the text.  A character that starts
\* no terminal is an Err(()) of logos, one character wide.
LogosAt(src, j) ==
    IF j >= Len(src) THEN [some |-> FALSE, kind |-> "Eof", span |-> Span(j, j)]
    ELSE IF src[j + 1] \in IdentChars
      THEN [some |-> TRUE, kind |-> "Ident",
            span |-> Span(j, RunEnd(src, j, IdentChars))]
    ELSE IF src[j + 1] \in DOMAIN Punct
      THEN [some |-> TRUE, kind |-> Punct[src[j + 1]], span |-> Span(j, j + 1)]
    ELSE IF src[j + 1] = "'" /\ RunUntil(src, j + 1, "'") < Len(src)
      THEN [some |-> TRUE, kind |-> "Literal",
            span |-> Span(j, RunUntil(src, j + 1, "'") + 1)]
    ELSE [some |-> TRUE, kind |-> "Err", span |-> Span(j, j + 1)]

LogosNext(src, i) == LogosAt(src, SkipTrivia(src, i))

-----------------------------------------------------------------------------
(* ring.rs: Ring<T, SIZE>                                                  *)

Ring_new(SIZE, default) == [data |-> [i \in 1..SIZE |-> default], head |-> 0]

Ring_push(r, value) ==
    [data |-> [r.data EXCEPT ![r.head + 1] = value],
     head |-> (r.head + 1) % Len(r.data)]

Ring_get(r, index) == r.data[((r.head + index) % Len(r.data)) + 1]

Ring_data_unrotated(r) == r.data

Ring_data(r) == [i \in 1..Len(r.data) |-> r.data[((r.head + (i - 1)) % Len(r.data)) + 1]]

-----------------------------------------------------------------------------
(* lexer.rs: Lexer<LOOKUP>                                                 *)

DefaultKind == "Eof"            \* #[default] of token::Kind
DefaultSpan == Span(0, 0)

\* (token, span) of the next scanned token; Eof with the last scanned span
\* once the scanner is exhausted.  Returns the lexer with `inner` and
\* `last_span` moved on.
Lexer_scanned(lx, n) ==
    IF n.some
      THEN [kind |-> IF n.kind = "Err" THEN "Error" ELSE n.kind,
            span |-> n.span,
            lx   |-> [lx EXCEPT !.inner = n.span.end, !.last_span = n.span]]
      ELSE [kind |-> "Eof", span |-> lx.last_span,
            lx   |-> [lx EXCEPT !.inner = n.span.end]]

Lexer_next_token_impl(lx) == Lexer_scanned(lx, LogosNext(lx.src, lx.inner))

Lexer_pushed(n) ==
    [n.lx EXCEPT !.buffer_span = Ring_push(n.lx.buffer_span, n.span),
                 !.buffer_kind = Ring_push(n.lx.buffer_kind, n.kind)]

Lexer_advance(lx) == Lexer_pushed(Lexer_next_token_impl(lx))

RECURSIVE AdvanceTimes(_, _)
AdvanceTimes(lx, n) == IF n = 0 THEN lx ELSE AdvanceTimes(Lexer_advance(lx), n - 1)

Lexer_new(src, lookup) ==
    AdvanceTimes([src |-> src, inner |-> 0,
                  buffer_span |-> Ring_new(lookup, DefaultSpan),
                  buffer_kind |-> Ring_new(lookup, DefaultKind),
                  last_span |-> Span(0, 0)], lookup)

Lexer_peek_array(lx) == Ring_data(lx.buffer_kind)
Lexer_peek_kind(lx)  == Ring_get(lx.buffer_kind, 0)
Lexer_peek_token(lx) == Token(Ring_get(lx.buffer_span, 0), Ring_get(lx.buffer_kind, 0))

\* next_token: the front token, and the lexer advanced
Lexer_next_token(lx) == [token |-> Lexer_peek_token(lx), lx |-> Lexer_advance(lx)]

-----------------------------------------------------------------------------
(* parser.rs: Parser, the event log and its marks                          *)

LOOKUP == 2                     \* Parser.lexer : Lexer<'src, 2>

EvOpen(kind)   == [e |-> "Open", kind |-> kind]
EvClose        == [e |-> "Close"]
EvSkip         == [e |-> "Skip"]
EvAdvance(tok) == [e |-> "Advance", token |-> tok]

\* A parser is [lexer, events, panic]; panic = "" while no panic! was raised.
\* After a panic the process is gone: every operation leaves the parser as is.
Parser_new(src) == [lexer |-> Lexer_new(src, LOOKUP), events |-> <<>>, panic |-> ""]

Panic(p, msg) == IF p.panic = "" THEN [p EXCEPT !.panic = msg] ELSE p

Parser_peek(p)       == Lexer_peek_kind(p.lexer)
Parser_peek_array(p) == Lexer_peek_array(p.lexer)
Parser_eof(p)        == Lexer_peek_kind(p.lexer) = "Eof"

Parser_advance(p) ==
    [p EXCEPT !.lexer = Lexer_advance(p.lexer),
              !.events = Append(p.events, EvAdvance(Lexer_peek_token(p.lexer)))]

Parser_skip(p) ==
    [p EXCEPT !.lexer = Lexer_advance(p.lexer), !.events = Append(p.events, EvSkip)]

Parser_skip_expect(p, kind) ==
    IF p.panic /= "" THEN p
    ELSE IF Lexer_peek_kind(p.lexer) = kind THEN Parser_skip(p)
    ELSE Panic(p, "Skip expected")

Parser_expect(p, kind) ==
    IF p.panic /= "" THEN p
    ELSE IF Lexer_peek_kind(p.lexer) = kind THEN Parser_advance(p)
    ELSE Panic(p, "Expected")

\* open: push Open{Error}; the mark is the (0-based) index of that event
Parser_open(p) ==
    [p |-> [p EXCEPT !.events = Append(p.events, EvOpen("Error"))],
     mark |-> Len(p.events)]

Parser_close_kindless(p, opened, kind) ==
    [p |-> [p EXCEPT !.events = Append(p.events, EvClose)], mark |-> opened]

\* close: rewrite the event under the mark, push Close, return the same index
Parser_close(p, opened, kind) ==
    [p |-> [p EXCEPT !.events = Append([p.events EXCEPT ![opened + 1] = EvOpen(kind)],
                                       EvClose)],
     mark |-> opened]

Parser_open_before_after(p, closed) ==
    [p |-> [p EXCEPT !.events = SubSeq(p.events, 1, closed + 1) \o <<EvOpen("Error")>>
                                \o SubSeq(p.events, closed + 2, Len(p.events))],
     mark |-> closed + 1]

\* open_before: Vec::insert of Open{Error} at the mark's index
Parser_open_before(p, closed) ==
    [p |-> [p EXCEPT !.events = SubSeq(p.events, 1, closed) \o <<EvOpen("Error")>>
                                \o SubSeq(p.events, closed + 1, Len(p.events))],
     mark |-> closed]

TermStart == {"Ident", "Literal", "ParenOpen"}

RECURSIVE term(_), expr(_), expr_loop(_, _, _, _, _)

\* term, Ident | Literal with a suffix: open, advance, skip, close(kind)
term_wrap_leaf(o, kind) == Parser_close(Parser_skip(Parser_advance(o.p)), o.mark, kind).p

\* term, Ident | Literal arm; `second` is peek_array()[1]
term_leaf(p, second) ==
    IF second = "Star" THEN term_wrap_leaf(Parser_open(p), "ZeroOrMore")
    ELSE IF second = "Question" THEN term_wrap_leaf(Parser_open(p), "Optional")
    ELSE Parser_advance(p)

\* term, group with a suffix: skip the suffix, close(kind) the node opened before
term_wrap_group(o, kind) == Parser_close(Parser_skip(o.p), o.mark, kind).p

\* term, Paren(Open) arm after skip_expect(Paren(Close)); `close` is expr's mark
term_suffix(q, close) ==
    IF q.panic /= "" THEN q
    ELSE IF Parser_peek(q) = "Star"
      THEN term_wrap_group(Parser_open_before(q, close), "ZeroOrMore")
    ELSE IF Parser_peek(q) = "Question"
      THEN term_wrap_group(Parser_open_before(q, close), "Optional")
    ELSE q

\* term, Paren(Open) arm after `let close = expr(p)`
term_group(inner) == term_suffix(Parser_skip_expect(inner.p, "ParenClose"), inner.mark)

\* grammar::term
term(p) ==
    IF p.panic /= "" THEN p
    ELSE IF Parser_peek(p) \in {"Ident", "Literal"}
      THEN term_leaf(p, Parser_peek_array(p)[2])
    ELSE IF Parser_peek(p) = "ParenOpen" THEN term_group(expr(Parser_skip(p)))
    ELSE Panic(p, "Unexpected token")

\* expr, Pipe arm: `if parsed_in_sequence > 1 { close(Sequence); open_before }`
expr_regroup(c) == Parser_open_before(c.p, c.mark)

\* expr, Pipe arm from `p.skip()` on; o is the parser and the mark in `opened`
expr_pipe(o, parsed_in_sequence) ==
    expr_loop(Parser_skip(o.p), o.mark, TRUE, TRUE, parsed_in_sequence)

\* the close that ends expr
expr_close(p, opened, is_branch) ==
    Parser_close(p, opened, IF is_branch THEN "Branch" ELSE "Sequence")

\* grammar::expr, one turn of `loop { match p.peek() ... }` and the final close
expr_loop(p, opened, is_branch, last_was_pipe, parsed_in_sequence) ==
    IF p.panic /= "" THEN [p |-> p, mark |-> 0]
    ELSE IF Parser_peek(p) = "Pipe" THEN
        expr_pipe(IF parsed_in_sequence > 1
                    THEN expr_regroup(Parser_close(p, opened, "Sequence"))
                    ELSE [p |-> p, mark |-> opened],
                  parsed_in_sequence)
    ELSE IF Parser_peek(p) \in TermStart THEN
        IF Parser_peek_array(p) = <<"Ident", "Equal">>
          THEN expr_close(p, opened, is_branch)
        ELSE IF is_branch /\ ~last_was_pipe
          THEN [p |-> Panic(p, "Cant use sequence in branch"), mark |-> 0]
        ELSE expr_loop(term(p), opened, is_branch, FALSE,
                       IF ~is_branch THEN parsed_in_sequence + 1 ELSE parsed_in_sequence)
    ELSE expr_close(p, opened, is_branch)

\* expr from `let mut opened = p.open()` to the first term
expr_start(o) == expr_loop(term(o.p), o.mark, FALSE, FALSE, 1)

\* grammar::expr
expr(p) ==
    IF p.panic /= "" THEN [p |-> p, mark |-> 0]
    ELSE IF Parser_peek_array(p) = <<"Ident", "Equal">>
      THEN [p |-> Panic(p, "Unexpected rule definition"), mark |-> 0]
    ELSE expr_start(Parser_open(p))

\* rule, the final close
rule_close(r, opened) ==
    IF r.p.panic /= "" THEN r.p ELSE Parser_close(r.p, opened, "Rule").p

\* rule after `let opened = p.open()`
rule_body(o) ==
    rule_close(expr(Parser_skip_expect(Parser_expect(o.p, "Ident"), "Equal")), o.mark)

\* grammar::rule
rule(p) == IF p.panic /= "" THEN p ELSE rule_body(Parser_open(p))

\* the `while !p.eof() { rule(p) }` loop
RECURSIVE file_loop(_)
file_loop(p) == IF p.panic /= "" \/ Parser_eof(p) THEN p ELSE file_loop(rule(p))

\* file, the final close
file_close(q, opened) ==
    IF q.panic /= "" THEN q ELSE Parser_close(q, opened, "Grammar").p

file_body(o) == file_close(file_loop(o.p), o.mark)

\* grammar::file
file(p) == file_body(Parser_open(p))

\* Parser::parse on a fresh parser
Parser_parse(src) == file(Parser_new(src))

-----------------------------------------------------------------------------
(* parser.rs: Parser::tree, the replay of the event log                    *)

Tree(kind, children) == [kind |-> kind, children |-> children]
ChildTree(t)    == [c |-> "Tree", tree |-> t]
ChildToken(tok) == [c |-> "Token", token |-> tok]

PushChild(stack, child) ==
    [stack EXCEPT ![Len(stack)].children = Append(@, child)]

\* the `for event in self.events` loop; the stack's top is its last entry.
\* An unwrap() of an empty stack ends the replay with panic = TRUE.
RECURSIVE Replay(_, _, _)
Replay(evs, i, stack) ==
    IF i > Len(evs) THEN [panic |-> FALSE, stack |-> stack]
    ELSE LET ev == evs[i] IN
         IF ev.e = "Open"
           THEN Replay(evs, i + 1, Append(stack, Tree(ev.kind, <<>>)))
         ELSE IF ev.e = "Close"
           THEN IF Len(stack) < 2 THEN [panic |-> TRUE, stack |-> stack]
                ELSE Replay(evs, i + 1,
                            PushChild(SubSeq(stack, 1, Len(stack) - 1),
                                      ChildTree(stack[Len(stack)])))
         ELSE IF ev.e = "Skip"
           THEN Replay(evs, i + 1, stack)
         ELSE IF stack = <<>> THEN [panic |-> TRUE, stack |-> stack]
              ELSE Replay(evs, i + 1, PushChild(stack, ChildToken(ev.token)))

NoTree == Tree("Error", <<>>)

\* Parser::tree: [panic, tree, left]; `left` is what stays on the stack under
\* the tree that is returned.
Parser_tree(evs) ==
    IF evs = <<>> \/ evs[Len(evs)] /= EvClose
      THEN [panic |-> TRUE, tree |-> NoTree, left |-> 0]
    ELSE LET r == Replay(SubSeq(evs, 1, Len(evs) - 1), 1, <<>>) IN
         IF r.panic \/ r.stack = <<>>
           THEN [panic |-> TRUE, tree |-> NoTree, left |-> 0]
           ELSE [panic |-> FALSE, tree |-> r.stack[Len(r.stack)],
                 left |-> Len(r.stack) - 1]

-----------------------------------------------------------------------------
(* grammar.rs: Expr and GrammarBuilder                                     *)

Literal(text) == [t |-> "Literal", s |-> text]
Rule(name)    == [t |-> "Rule", s |-> name]
Sequence(xs)  == [t |-> "Sequence", xs |-> xs]
Choice(xs)    == [t |-> "Choice", xs |-> xs]
Optional(x)   == [t |-> "Optional", x |-> x]
Repeat(x)     == [t |-> "Repeat", x |-> x]
PanicExpr     == [t |-> "Panic"]      \* parse_expr ended in a panic! here

\* GrammarBuilder::parse_expr
RECURSIVE parse_expr(_, _)
parse_expr(src, child) ==
    IF child.c = "Token" THEN
        LET token == child.token IN
        IF token.kind = "Literal"
          THEN Literal(Slice(src, token.span.start + 1, token.span.end - 1))
        ELSE IF token.kind = "Ident"
          THEN Rule(Slice(src, token.span.start, token.span.end))
        ELSE PanicExpr
    ELSE
        LET tr == child.tree
            kids == [i \in 1..Len(tr.children) |-> parse_expr(src, tr.children[i])]
        IN  IF tr.kind = "Sequence" THEN Sequence(kids)
            ELSE IF tr.kind = "Branch"
              THEN IF Len(tr.children) = 1 THEN kids[1] ELSE Choice(kids)
            ELSE IF tr.kind = "Optional"
              THEN IF tr.children = <<>> THEN PanicExpr ELSE Optional(kids[1])
            ELSE IF tr.kind = "ZeroOrMore"
              THEN IF tr.children = <<>> THEN PanicExpr ELSE Repeat(kids[1])
            ELSE PanicExpr

RECURSIVE HasPanic(_)
HasPanic(e) ==
    CASE e.t = "Panic" -> TRUE
      [] e.t \in {"Literal", "Rule"} -> FALSE
      [] e.t \in {"Sequence", "Choice"} -> \E i \in 1..Len(e.xs) : HasPanic(e.xs[i])
      [] e.t \in {"Optional", "Repeat"} -> HasPanic(e.x)

\* IndexMap: a sequence of [name, expr] with distinct names
Names(rs)     == {rs[i].name : i \in 1..Len(rs)}
Get(rs, name) == rs[CHOOSE i \in 1..Len(rs) : rs[i].name = name].expr

\* IndexMap::insert: a new key goes to the end, an old key keeps its place
MapInsert(rs, name, e) ==
    IF name \in Names(rs)
      THEN [i \in 1..Len(rs) |-> IF rs[i].name = name THEN [name |-> name, expr |-> e]
                                                        ELSE rs[i]]
      ELSE Append(rs, [name |-> name, expr |-> e])

\* the body of the `for child in &self.tree.children` loop of build
RECURSIVE build_loop(_, _, _, _)
build_loop(src, children, i, rs) ==
    IF i > Len(children) THEN [panic |-> FALSE, rules |-> rs]
    ELSE LET child == children[i] IN
         IF child.c /= "Tree" \/ child.tree.kind /= "Rule"
           THEN [panic |-> TRUE, rules |-> rs]
         ELSE LET kids == child.tree.children IN
              IF Len(kids) < 2 \/ kids[1].c /= "Token" \/ kids[1].token.kind /= "Ident"
                THEN [panic |-> TRUE, rules |-> rs]
              ELSE LET name == Slice(src, kids[1].token.span.start, kids[1].token.span.end)
                       e    == parse_expr(src, kids[2])
                   IN  IF HasPanic(e) THEN [panic |-> TRUE, rules |-> rs]
                       ELSE build_loop(src, children, i + 1, MapInsert(rs, name, e))

\* GrammarBuilder::build
build(src, tr) == build_loop(src, tr.children, 1, <<>>)

-----------------------------------------------------------------------------
(* grammar.rs: Expr::may_miss, Expr::is_alias, Expr::produces_at_end        *)
(*                                                                         *)
(* The three are pure recursive functions over an immutable grammar.  A    *)
(* boolean function answers "T" or "F"; "P" is a panic (unwrap of a rule   *)
(* that is not declared); "D" is a recursion that never returns: a call    *)
(* whose arguments equal those of a call still on the stack.               *)

Epsilon == <<"ε">>              \* the marker "ε"

\* Expr::may_miss; `stack` holds the rule names of the Rule calls in progress
RECURSIVE may_miss(_, _, _), may_miss_any(_, _, _, _)
may_miss(e, rs, stack) ==
    CASE e.t = "Literal" -> "F"
      [] e.t = "Rule" ->
            IF e.s \notin Names(rs) THEN "P"
            ELSE IF e.s \in stack THEN "D"
            ELSE may_miss(Get(rs, e.s), rs, stack \cup {e.s})
      [] e.t \in {"Sequence", "Choice"} -> may_miss_any(e.xs, 1, rs, stack)
      [] e.t \in {"Optional", "Repeat"} -> "T"

\* exprs.iter().any(|x| x.may_miss(rules)), left to right, stopping at a true
may_miss_any(xs, i, rs, stack) ==
    IF i > Len(xs) THEN "F"
    ELSE LET r == may_miss(xs[i], rs, stack) IN
         IF r = "F" THEN may_miss_any(xs, i + 1, rs, stack) ELSE r

\* Expr::is_alias(self, &Expr::Rule(name)); `stack` holds the <<rule, name>>
\* pairs of the Rule-arm calls in progress
RECURSIVE is_alias(_, _, _, _), is_alias_any(_, _, _, _, _)
is_alias(self, name, rs, stack) ==
    CASE self.t = "Rule" ->
            IF self.s = name THEN "T"
            ELSE IF name \notin Names(rs) THEN "P"
            ELSE IF <<self.s, name>> \in stack THEN "D"
            ELSE is_alias(Get(rs, name), self.s, rs, stack \cup {<<self.s, name>>})
      [] self.t = "Sequence" ->
            IF Len(self.xs) /= 1 THEN "F" ELSE is_alias(self.xs[1], name, rs, stack)
      [] self.t = "Choice" -> is_alias_any(self.xs, 1, name, rs, stack)
      [] self.t \in {"Optional", "Repeat"} -> is_alias(self.x, name, rs, stack)
      [] self.t = "Literal" -> "F"

is_alias_any(xs, i, name, rs, stack) ==
    IF i > Len(xs) THEN "F"
    ELSE LET r == is_alias(xs[i], name, rs, stack) IN
         IF r = "F" THEN is_alias_any(xs, i + 1, name, rs, stack) ELSE r

\* Expr::produces_at_end
RECURSIVE produces_at_end(_, _)
produces_at_end(self, e) ==
    CASE self.t \in {"Literal", "Rule"} -> e = self
      [] self.t = "Sequence" -> self.xs /= <<>> /\ e = self.xs[Len(self.xs)]
      [] self.t = "Choice" -> \E i \in 1..Len(self.xs) : produces_at_end(self.xs[i], e)
      [] self.t \in {"Optional", "Repeat"} -> produces_at_end(self.x, e)

-----------------------------------------------------------------------------
(* grammar.rs: Grammar::first_set_impl and Grammar::first_set              *)
(*                                                                         *)
(* A call yields [st, set, prods]: st is "ok" (it returned `set`, leaving  *)
(* the shared visited set `productions` as `prods`), "panic" or "diverge". *)
(* productions is an IndexSet: a sequence of distinct names in insertion   *)
(* order.                                                                  *)

Ok(set, prods) == [st |-> "ok", set |-> set, prods |-> prods]
Stop(st)       == [st |-> st, set |-> {}, prods |-> <<>>]
StOf(b)        == IF b = "P" THEN "panic" ELSE "diverge"

\* productions.iter().all(|r| rules.get(rule).unwrap().is_alias(&Rule(r), ..)),
\* in insertion order, stopping at the first false
RECURSIVE all_alias(_, _, _, _)
all_alias(rname, prods, i, rs) ==
    IF i > Len(prods) THEN "T"
    ELSE IF rname \notin Names(rs) THEN "P"
    ELSE LET r == is_alias(Get(rs, rname), prods[i], rs, {}) IN
         IF r = "T" THEN all_alias(rname, prods, i + 1, rs) ELSE r

alias_guard_closed(curr, prods, rs) == "F"

\* the guard of the `Expr::Rule(rule) if ... && curr.may_miss(..)` arm
alias_guard(curr, prods, rs) ==
    LET a == all_alias(curr.s, prods, 1, rs) IN
    IF a = "T" THEN may_miss(curr, rs, {}) ELSE a

insert_empty_skipped(set) == set

\* `let Some(curr) = iter.next() else { set.insert("ε"); break; }`
insert_empty(set) == set \cup {Epsilon}

RECURSIVE first_set_impl(_, _, _), first_seq(_, _, _, _, _), first_choice(_, _, _, _, _)
first_set_impl(e, prods, rs) ==
    CASE e.t = "Literal" -> Ok({e.s}, prods)
      [] e.t = "Rule" ->
            IF e.s \in Range(prods) THEN Ok({}, prods)
            ELSE IF e.s \notin Names(rs) THEN Stop("panic")
            ELSE first_set_impl(Get(rs, e.s), Append(prods, e.s), rs)
      [] e.t = "Sequence" -> first_seq(e.xs, 1, {}, prods, rs)
      [] e.t = "Choice" -> first_choice(e.xs, 1, {}, prods, rs)
      [] e.t \in {"Optional", "Repeat"} -> first_set_impl(e.x, prods, rs)

\* the `loop` of the Sequence arm, at element i with `set` gathered so far
first_seq(xs, i, set, prods, rs) ==
    IF i > Len(xs) THEN Ok(insert_empty(set), prods)
    ELSE LET curr == xs[i] IN
         IF curr.t \in {"Optional", "Repeat"} THEN
             LET r == first_set_impl(curr.x, prods, rs) IN
             IF r.st /= "ok" THEN r
             ELSE first_seq(xs, i + 1, set \cup r.set, r.prods, rs)
         ELSE LET g == IF curr.t = "Rule" THEN alias_guard(curr, prods, rs) ELSE "F" IN
              IF g \in {"P", "D"} THEN Stop(StOf(g))
              ELSE LET r == first_set_impl(curr, prods, rs) IN
                   IF r.st /= "ok" THEN r
                   ELSE IF g = "T" THEN first_seq(xs, i + 1, set \cup r.set, r.prods, rs)
                   ELSE Ok(set \cup r.set, r.prods)

\* the for_each of the Choice arm
first_choice(xs, i, set, prods, rs) ==
    IF i > Len(xs) THEN Ok(set, prods)
    ELSE LET r == first_set_impl(xs[i], prods, rs) IN
         IF r.st /= "ok" THEN r
         ELSE first_choice(xs, i + 1, set \cup r.set, r.prods, rs)

first_set_lenient(name, rs) ==
    IF name \notin Names(rs) THEN Ok({}, <<name>>)
    ELSE first_set_impl(Get(rs, name), <<name>>, rs)

\* Grammar::first_set
first_set(name, rs) ==
    IF name \notin Names(rs) THEN Stop("panic")
    ELSE first_set_impl(Get(rs, name), <<name>>, rs)

-----------------------------------------------------------------------------
(* grammar.rs: Grammar::follow_set_impl                                    *)
(*                                                                         *)
(* A call yields [st, set].  `productions` is only tested and cloned, so   *)
(* it is a plain set of names here.                                        *)

FOk(set)   == [st |-> "ok", set |-> set]
FStop(st)  == [st |-> st, set |-> {}]

self_repetition_never(e, of, strict) == FALSE

\* `if let Expr::Repeat(rep) = expr && rep.produces_at_end(&Expr::Rule(of)) && !strict`
self_repetition(e, of, strict) ==
    e.t = "Repeat" /\ produces_at_end(e.x, Rule(of)) /\ ~strict

follow_rules_skipped(parent, j, set, productions, strict, rs) == FOk(set)

RECURSIVE follow_set_impl(_, _, _, _, _, _), follow_choice(_, _, _, _, _, _, _, _),
          follow_seq(_, _, _, _, _, _, _, _, _), follow_rules(_, _, _, _, _, _)
follow_set_impl(of, parent, e, productions, strict, rs) ==
    CASE e.t = "Choice" -> follow_choice(of, parent, e.xs, 1, {}, productions, strict, rs)
      [] e.t = "Sequence" ->
            follow_seq(of, parent, e.xs, 1, FALSE, {}, productions, strict, rs)
      [] OTHER -> FStop("panic")

\* `for branch in branches`
follow_choice(of, parent, xs, i, set, productions, strict, rs) ==
    IF i > Len(xs) THEN FOk(set)
    ELSE LET r == follow_set_impl(of, parent, xs[i], productions, strict, rs) IN
         IF r.st /= "ok" THEN r
         ELSE follow_choice(of, parent, xs, i + 1, set \cup r.set, productions, strict, rs)

\* `for (sub_name, sub_rule) in self.rules.iter()` of the perform_follow block:
\* FOLLOW of `parent` gathered over the rules not yet in productions, from rule j on
follow_rules(parent, j, set, productions, strict, rs) ==
    IF j > Len(rs) THEN FOk(set)
    ELSE IF rs[j].name \in productions
      THEN follow_rules(parent, j + 1, set, productions, strict, rs)
    ELSE LET r == follow_set_impl(parent, rs[j].name, rs[j].expr,
                                  productions \cup {rs[j].name}, strict, rs) IN
         IF r.st /= "ok" THEN r
         ELSE follow_rules(parent, j + 1, set \cup r.set, productions, strict, rs)

\* `while let Some(expr) = iter.next()` of the Sequence arm, at element i
follow_seq(of, parent, xs, i, last_may_be_empty, set, productions, strict, rs) ==
    IF i > Len(xs) THEN FOk(set)
    ELSE IF ~(last_may_be_empty \/ produces_at_end(xs[i], Rule(of)))
      THEN follow_seq(of, parent, xs, i + 1, last_may_be_empty, set,
                      productions, strict, rs)
    ELSE
      LET \* self repetition: FIRST(rep) is added as it is
          selfrep == self_repetition(xs[i], of, strict)
          a  == IF selfrep THEN first_set_impl(xs[i].x, <<>>, rs) ELSE Ok({}, <<>>)
          \* FIRST of the next element, when there is one
          hasnext == i < Len(xs)
          f  == IF hasnext THEN first_set_impl(xs[i + 1], <<>>, rs) ELSE Ok({}, <<>>)
          contains_empty == Epsilon \in f.set
          mm == IF ~hasnext THEN (IF last_may_be_empty THEN "T" ELSE "F")
                ELSE IF contains_empty THEN "T"
                ELSE may_miss(xs[i + 1], rs, {})
          perform_follow == IF hasnext THEN contains_empty ELSE TRUE
          set2 == set \cup a.set \cup (f.set \ {Epsilon})
      IN  IF a.st /= "ok" THEN FStop(a.st)
          ELSE IF f.st /= "ok" THEN FStop(f.st)
          ELSE IF mm \in {"P", "D"} THEN FStop(StOf(mm))
          ELSE LET r == IF perform_follow
                          THEN follow_rules(parent, 1, set2, productions, strict, rs)
                          ELSE FOk(set2)
               IN  IF r.st /= "ok" THEN r
                   ELSE follow_seq(of, parent, xs, i + 1, mm = "T", r.set,
                                   productions, strict, rs)

\* main.rs, Command::Follow: FOLLOW(nt) accumulated over every rule
RECURSIVE follow_acc(_, _, _, _, _)
follow_acc(nt, j, set, strict, rs) ==
    IF j > Len(rs) THEN FOk(set)
    ELSE LET r == follow_set_impl(nt, rs[j].name, rs[j].expr, {rs[j].name}, strict, rs) IN
         IF r.st /= "ok" THEN r
         ELSE follow_acc(nt, j + 1, set \cup r.set, strict, rs)

follow_set(nt, strict, rs) == follow_acc(nt, 1, {}, strict, rs)

-----------------------------------------------------------------------------
(* Source texts                                                            *)

\* lexemes are joined by single blanks
RECURSIVE Join(_)
Join(ls) == IF ls = <<>> THEN <<>>
            ELSE IF Len(ls) = 1 THEN ls[1]
            ELSE ls[1] \o <<" ">> \o Join(Tail(ls))

\* all sequences over S of length lo..hi
SeqsOf(S, lo, hi) == UNION {[1..n -> S] : n \in lo..hi}

Lit(c) == <<"'", c, "'">>

-----------------------------------------------------------------------------
(* The stand-alone lexer, as lexer.rs test_ring drives it                  *)

MaxSrcLen   == 4        \* lexemes in a source text of the lexer runs
MaxAdvances == 6        \* advance() calls after Lexer::new
Lookups     == {1, 2, 3}
LexVocab    == {<<"(">>, <<"|">>, <<")">>, <<"a">>, <<" ">>, <<"!">>}

NoLexer == [src |-> <<>>, inner |-> 0, buffer_span |-> Ring_new(1, DefaultSpan),
            buffer_kind |-> Ring_new(1, DefaultKind), last_span |-> Span(0, 0)]
NoResult == [st |-> "none", set |-> {}]
NoQuery  == [op |-> "none", nt |-> <<>>, strict |-> FALSE]

Idle(in, src) ==
    /\ input = in
    /\ source = src
    /\ lexer = NoLexer
    /\ advances = 0
    /\ pc = "start"
    /\ events = <<>>
    /\ tree = NoTree
    /\ rules = <<>>
    /\ query = NoQuery
    /\ result = NoResult

InitLexer ==
    \E ls \in SeqsOf(LexVocab, 0, MaxSrcLen) :
        Idle([kind |-> "text", lexemes |-> ls], Flatten(ls))

\* Lexer::<n>::new(source)
LexerNew(n) ==
    /\ pc = "start"
    /\ lexer' = Lexer_new(source, n)
    /\ advances' = 0
    /\ pc' = "lexing"
    /\ UNCHANGED <<input, source, events, tree, rules, query, result>>

\* lexer.advance()
LexerAdvance ==
    /\ pc = "lexing"
    /\ advances < MaxAdvances
    /\ lexer' = Lexer_advance(lexer)
    /\ advances' = advances + 1
    /\ UNCHANGED <<input, source, pc, events, tree, rules, query, result>>

NextLexer == (\E n \in Lookups : LexerNew(n)) \/ LexerAdvance

SpecLexer == InitLexer /\ [][NextLexer]_vars

\* the token kinds the scanner yields for a text, in order (Err as Error)
RECURSIVE KindsFrom(_, _)
KindsFrom(src, i) ==
    LET n == LogosNext(src, i) IN
    IF ~n.some THEN <<>>
    ELSE <<IF n.kind = "Err" THEN "Error" ELSE n.kind>> \o KindsFrom(src, n.span.end)

TokenKinds(src) == KindsFrom(src, 0)

-----------------------------------------------------------------------------
(* main.rs: the pipeline  parse -> tree -> build -> first / follow         *)

\* parser.parse(); a panic! ends the run
Parse ==
    /\ pc = "start"
    /\ LET p == Parser_parse(source) IN
       IF p.panic /= ""
         THEN /\ pc' = "panicked"
              /\ result' = [st |-> "panic", set |-> {}]
              /\ events' = p.events
         ELSE /\ pc' = "parsed"
              /\ events' = p.events
              /\ UNCHANGED result
    /\ UNCHANGED <<input, source, lexer, advances, tree, rules, query>>

\* parser.tree()
MakeTree ==
    /\ pc = "parsed"
    /\ LET t == Parser_tree(events) IN
       IF t.panic
         THEN pc' = "panicked" /\ result' = [st |-> "panic", set |-> {}] /\ UNCHANGED tree
         ELSE pc' = "tree" /\ tree' = t.tree /\ UNCHANGED result
    /\ UNCHANGED <<input, source, lexer, advances, events, rules, query>>

\* GrammarBuilder::new(&source, tree).build()
Build ==
    /\ pc = "tree"
    /\ LET g == build(source, tree) IN
       IF g.panic
         THEN pc' = "panicked" /\ result' = [st |-> "panic", set |-> {}] /\ UNCHANGED rules
         ELSE pc' = "built" /\ rules' = g.rules /\ UNCHANGED result
    /\ UNCHANGED <<input, source, lexer, advances, events, tree, query>>

\* Command::First: grammar.first_set(&nt)
First(nt) ==
    /\ pc = "built"
    /\ query' = [op |-> "first", nt |-> nt, strict |-> FALSE]
    /\ LET r == first_set(nt, rules) IN result' = [st |-> r.st, set |-> r.set]
    /\ pc' = "answered"
    /\ UNCHANGED <<input, source, lexer, advances, events, tree, rules>>

\* Command::Follow: the FOLLOW set of nt gathered over all rules
Follow(nt, strict) ==
    /\ pc = "built"
    /\ query' = [op |-> "follow", nt |-> nt, strict |-> strict]
    /\ result' = follow_set(nt, strict, rules)
    /\ pc' = "answered"
    /\ UNCHANGED <<input, source, lexer, advances, events, tree, rules>>

-----------------------------------------------------------------------------
(* Parser runs: rule A with a right-hand side of up to MaxToks lexemes, or  *)
(* a run of terms followed by alternatives                                 *)

MaxToks == 4        \* lexemes after `A =` in the enumerated texts
MaxRun  == 3        \* juxtaposed terms in the first alternative
MaxAlts == 2        \* alternatives introduced by `|`

ParseVocab == {<<"B">>, Lit("d"), <<"|">>, <<"(">>, <<")">>, <<"*">>, <<"=">>}

\* terms of the runs: their lexemes, and the Expr the builder is to give them
TermB    == [lex |-> <<<<"B">>>>, expr |-> Rule(<<"B">>)]
TermC    == [lex |-> <<<<"C">>>>, expr |-> Rule(<<"C">>)]
TermD    == [lex |-> <<Lit("d")>>, expr |-> Literal(<<"d">>)]
AltOptC  == [lex |-> <<<<"(">>, <<"B">>, <<"|">>, Lit("d"), <<")">>, <<"?">>>>,
             expr |-> Optional(Choice(<<Rule(<<"B">>), Literal(<<"d">>)>>))]
TermRepS == [lex |-> <<<<"(">>, Lit("d"), <<"B">>, <<")">>, <<"*">>>>,
             expr |-> Repeat(Sequence(<<Literal(<<"d">>), Rule(<<"B">>)>>))]
TermPool == {TermB, TermC, TermD, TermRepS}
AltPool  == {TermD, AltOptC}

RuleHead(name) == <<name, <<"=">>>>
NextRule == <<<<"C">>, <<"=">>, Lit("d")>>

RECURSIVE AltLexemes(_)
AltLexemes(alts) ==
    IF alts = <<>> THEN <<>> ELSE <<<<"|">>>> \o alts[1].lex \o AltLexemes(Tail(alts))

RunLexemes(in) ==
    RuleHead(<<"A">>) \o Flatten([i \in 1..Len(in.terms) |-> in.terms[i].lex])
        \o AltLexemes(in.alts) \o (IF in.more THEN NextRule ELSE <<>>)

InitParser ==
    \/ \E ls \in SeqsOf(ParseVocab, 0, MaxToks) :
          Idle([kind |-> "tokens", lexemes |-> ls], Join(RuleHead(<<"A">>) \o ls))
    \/ \E ts \in SeqsOf(TermPool, 2, MaxRun), as \in SeqsOf(AltPool, 1, MaxAlts),
          more \in BOOLEAN :
          LET in == [kind |-> "run", terms |-> ts, alts |-> as, more |-> more] IN
          Idle(in, Join(RunLexemes(in)))

NextParser == Parse \/ MakeTree \/ Build

SpecParser == InitParser /\ [][NextParser]_vars

-----------------------------------------------------------------------------
(* Grammars for the analysis runs: rules named A, B, Z in this order, each  *)
(* with a right-hand side of a pool                                        *)

MaxRules  == 3       \* rules in a grammar
RuleNames == <<<<"A">>, <<"B">>, <<"Z">>, <<"S">>, <<"C">>>>
DeclNames == {RuleNames[i] : i \in 1..MaxRules}

A == <<"A">>
B == <<"B">>
Z == <<"Z">>
QM == <<"?">>
STAR == <<"*">>
PIPE == <<"|">>
LP == <<"(">>
RP == <<")">>

RECURSIVE GrammarLexemes(_, _)
GrammarLexemes(rhs, i) ==
    IF i > Len(rhs) THEN <<>>
    ELSE RuleHead(RuleNames[i]) \o rhs[i] \o GrammarLexemes(rhs, i + 1)

InitGrammar(pool) ==
    \E rhs \in SeqsOf(pool, 1, MaxRules) :
        Idle([kind |-> "grammar", rhs |-> rhs], Join(GrammarLexemes(rhs, 1)))

FirstPool ==
    { <<Lit("x")>>,                 \* 'x'
      <<Lit("y")>>,                 \* 'y'
      <<B, QM, Lit("x")>>,          \* B? 'x'
      <<B, QM>>,                    \* B?
      <<B>>,                        \* B
      <<A>>,                        \* A
      <<B, Lit("x")>>,              \* B 'x'
      <<A, QM>>,                    \* A?
      <<Lit("y"), QM>>,             \* 'y'?
      <<Z, QM>>,                    \* Z?
      <<B, PIPE, Lit("x")>> }       \* B | 'x'

InitFirst == InitGrammar(FirstPool)

NextFirst == Parse \/ MakeTree \/ Build \/ (\E nt \in DeclNames : First(nt))

SpecFirst == InitFirst /\ [][NextFirst]_vars

FollowPool ==
    { <<A, B, QM>>,                             \* A B?
      <<Lit("y")>>,                             \* 'y'
      <<Lit("x"), A, STAR, Lit("y")>>,          \* 'x' A* 'y'
      <<Lit("x"), PIPE, Lit("y")>>,             \* 'x' | 'y'
      <<A, B>>,                                 \* A B
      <<Lit("y"), QM>>,                         \* 'y'?
      <<A, STAR, Lit("w")>>,                    \* A* 'w'
      <<A, LP, B, QM, Lit("x"), RP, Lit("w")>>, \* A (B? 'x') 'w'
      <<Lit("x"), Z, Lit("w")>>,                \* 'x' Z 'w'
      <<A, B, PIPE, LP, Lit("x"), Z, RP>> }     \* A B | ('x' Z)

InitFollow == InitGrammar(FollowPool)

NextFollow ==
    Parse \/ MakeTree \/ Build
      \/ (\E nt \in DeclNames, strict \in BOOLEAN : Follow(nt, strict))

SpecFollow == InitFollow /\ [][NextFollow]_vars

\* every run of the tool
Init == InitLexer \/ InitParser \/ InitFirst \/ InitFollow

Next == NextLexer \/ NextParser \/ NextFirst \/ NextFollow

Spec == Init /\ [][Next]_vars

-----------------------------------------------------------------------------
(* Properties                                                              *)

\* C1: after Lexer::new and k advances the lookahead array of a lexer of
\* width N is the window [k, k+N) of the text's token kinds, padded with Eof
\* past the end, and peek_kind is its first entry.
C1_LookaheadWindow ==
    pc = "lexing" =>
        LET ks == TokenKinds(source)
            N  == Len(lexer.buffer_kind.data)
        IN  /\ Lexer_peek_array(lexer) =
                   [i \in 1..N |-> IF advances + i <= Len(ks) THEN ks[advances + i]
                                                              ELSE "Eof"]
            /\ Lexer_peek_kind(lexer) = Lexer_peek_array(lexer)[1]

\* the ring has wrapped and the window straddles the end of the tokens
\* (test_ring, fourth assertion)
C1_Witness ==
    /\ pc = "lexing"
    /\ source = <<"(", "|", ")", "a">>
    /\ advances = 3
    /\ Lexer_peek_array(lexer) = <<"Ident", "Eof">>

\* C2: a right-hand side made of a run of n >= 2 terms, one `|` and one more
\* term is built as a Choice of two arms: the Sequence of the run, then the
\* single term.
C2_RunThenPipe ==
    (input.kind = "run" /\ Len(input.alts) = 1) =>
        /\ pc /= "panicked"
        /\ pc = "built" =>
              /\ rules[1].name = <<"A">>
              /\ rules[1].expr =
                    Choice(<<Sequence([i \in 1..Len(input.terms) |-> input.terms[i].expr]),
                             input.alts[1].expr>>)

\* `A = B C | 'd'` went through parse, tree and build
C2_Witness ==
    /\ pc = "built"
    /\ input.kind = "run"
    /\ input.terms = <<TermB, TermC>>
    /\ input.alts = <<TermD>>
    /\ ~input.more
    /\ rules = <<[name |-> <<"A">>,
                  expr |-> Choice(<<Sequence(<<Rule(<<"B">>), Rule(<<"C">>)>>),
                                    Literal(<<"d">>)>>)]>>

-----------------------------------------------------------------------------
(* Grammar shapes the analysis properties speak about                      *)

\* the rule names an expression refers to
RECURSIVE RuleRefs(_)
RuleRefs(e) ==
    CASE e.t = "Literal" -> {}
      [] e.t = "Rule" -> {e.s}
      [] e.t \in {"Sequence", "Choice"} -> UNION {RuleRefs(e.xs[i]) : i \in 1..Len(e.xs)}
      [] e.t \in {"Optional", "Repeat"} -> RuleRefs(e.x)

\* every rule that is referred to is declared
AllDeclared(rs) == \A i \in 1..Len(rs) : RuleRefs(rs[i].expr) \subseteq Names(rs)

\* rule `name` is declared with right-hand side e
Has(rs, name, e) == name \in Names(rs) /\ Get(rs, name) = e

\* whether e derives the empty string, given the set N of rules known to
\* derive it
RECURSIVE NullableExpr(_, _)
NullableExpr(e, N) ==
    CASE e.t = "Literal" -> FALSE
      [] e.t = "Rule" -> e.s \in N
      [] e.t = "Sequence" -> \A i \in 1..Len(e.xs) : NullableExpr(e.xs[i], N)
      [] e.t = "Choice" -> \E i \in 1..Len(e.xs) : NullableExpr(e.xs[i], N)
      [] e.t \in {"Optional", "Repeat"} -> TRUE

\* the rules that derive the empty string: the least fixed point, reached
\* after at most one round per rule
RECURSIVE NullableRules(_, _, _)
NullableRules(rs, N, k) ==
    IF k = 0 THEN N
    ELSE NullableRules(rs, {rs[i].name : i \in {j \in 1..Len(rs) : NullableExpr(rs[j].expr, N)}},
                       k - 1)

Nullable(rs, name) == name \in NullableRules(rs, {}, Len(rs))

FirstAnswered  == pc = "answered" /\ query.op = "first"
FollowAnswered == pc = "answered" /\ query.op = "follow"

X == <<"x">>
Y == <<"y">>
W == <<"w">>

-----------------------------------------------------------------------------
(* FIRST                                                                   *)

\* what the Sequence arm gathers from element i on: every leading
\* Optional / Repeat element, every leading Rule element that is an alias of
\* all visited rules and may miss, then the first remaining element; the
\* empty marker when no element remains
RECURSIVE C3_Gathered(_, _, _, _)
C3_Gathered(xs, i, prods, rs) ==
    IF i > Len(xs) THEN {Epsilon}
    ELSE IF xs[i].t \in {"Optional", "Repeat"}
      THEN first_set_impl(xs[i].x, prods, rs).set
             \cup C3_Gathered(xs, i + 1, first_set_impl(xs[i].x, prods, rs).prods, rs)
    ELSE IF /\ xs[i].t = "Rule"
            /\ all_alias(xs[i].s, prods, 1, rs) = "T"
            /\ may_miss(xs[i], rs, {}) = "T"
      THEN first_set_impl(xs[i], prods, rs).set
             \cup C3_Gathered(xs, i + 1, first_set_impl(xs[i], prods, rs).prods, rs)
    ELSE first_set_impl(xs[i], prods, rs).set

\* C3 (as amended): when first_set returns on a rule whose right-hand side is
\* a Sequence, the result is the union of the FIRST sets of the leading
\* Optional / Repeat elements, of the leading Rule elements that pass the
\* alias-and-may-miss guard, and of the first element that is neither, plus
\* the empty marker when every element was gathered; `A = 'x'` gives {x} and
\* `A = B? 'x'`, `B = 'y'` gives {y, x}.
C3_SequenceFirst ==
    (FirstAnswered /\ query.nt \in Names(rules)) =>
        /\ (result.st = "ok" /\ Get(rules, query.nt).t = "Sequence") =>
              result.set = C3_Gathered(Get(rules, query.nt).xs, 1, <<query.nt>>, rules)
        /\ Has(rules, query.nt, Sequence(<<Literal(X)>>)) =>
              (result.st = "ok" /\ result.set = {X})
        /\ (/\ query.nt = A
            /\ Has(rules, A, Sequence(<<Optional(Rule(B)), Literal(X)>>))
            /\ Has(rules, B, Sequence(<<Literal(Y)>>))) =>
              (result.st = "ok" /\ result.set = {Y, X})

\* `A = B 'x'`, `B = A?`: B passes the guard, so 'x' after it is gathered
C3_Witness ==
    /\ FirstAnswered
    /\ query.nt = A
    /\ rules = <<[name |-> A, expr |-> Sequence(<<Rule(B), Literal(X)>>)],
                 [name |-> B, expr |-> Sequence(<<Optional(Rule(A))>>)]>>
    /\ result = [st |-> "ok", set |-> {X, Epsilon}]

\* the leading Optional / Repeat elements and the first other element only
RECURSIVE C3_LeadingOnly(_, _, _, _)
C3_LeadingOnly(xs, i, prods, rs) ==
    IF i > Len(xs) THEN {}
    ELSE IF xs[i].t \in {"Optional", "Repeat"}
      THEN first_set_impl(xs[i].x, prods, rs).set
             \cup C3_LeadingOnly(xs, i + 1, first_set_impl(xs[i].x, prods, rs).prods, rs)
    ELSE first_set_impl(xs[i], prods, rs).set

\* C3 as stated: the result is the union over the leading Optional / Repeat
\* elements and the first element that is not one, nothing after it.
C3_AsStated ==
    (/\ FirstAnswered
     /\ query.nt \in Names(rules)
     /\ result.st = "ok"
     /\ Get(rules, query.nt).t = "Sequence"
     /\ \E i \in 1..Len(Get(rules, query.nt).xs) :
            Get(rules, query.nt).xs[i].t \notin {"Optional", "Repeat"}) =>
        result.set = C3_LeadingOnly(Get(rules, query.nt).xs, 1, <<query.nt>>, rules)

\* C4 (as amended): for `A = B?`, `B = 'y'`, first("A") is exactly {y, ε}:
\* the Sequence that wraps the right-hand side is exhausted and adds the
\* empty marker.
C4_OptionalBody ==
    (/\ FirstAnswered
     /\ query.nt = A
     /\ Has(rules, A, Sequence(<<Optional(Rule(B))>>))
     /\ Has(rules, B, Sequence(<<Literal(Y)>>))) =>
        result = [st |-> "ok", set |-> {Y, Epsilon}]

C4_Witness ==
    /\ FirstAnswered
    /\ query.nt = A
    /\ rules = <<[name |-> A, expr |-> Sequence(<<Optional(Rule(B))>>)],
                 [name |-> B, expr |-> Sequence(<<Literal(Y)>>)]>>
    /\ Epsilon \in result.set
    /\ Y \in result.set

\* C4 as stated: for `A = B?`, `B = 'y'`, first("A") is exactly {y}.
C4_AsStated ==
    (/\ FirstAnswered
     /\ query.nt = A
     /\ Has(rules, A, Sequence(<<Optional(Rule(B))>>))
     /\ Has(rules, B, Sequence(<<Literal(Y)>>))) =>
        (result.st = "ok" /\ result.set = {Y})

\* C5: first_set(name) returns on every grammar whose referenced rules are
\* all declared, reference cycles such as `A = B`, `B = A` included.
C5_FirstReturns ==
    (FirstAnswered /\ query.nt \in Names(rules) /\ AllDeclared(rules)) =>
        result.st = "ok"

\* C10: the empty marker is in first_set(name) only if rule `name` derives
\* the empty string.
C10_EpsilonOnlyIfNullable ==
    (FirstAnswered /\ result.st = "ok" /\ Epsilon \in result.set) =>
        Nullable(rules, query.nt)

-----------------------------------------------------------------------------
(* FOLLOW                                                                  *)

\* C6: the FOLLOW computation returns on every grammar whose referenced
\* rules are all declared, recursive rules included: no follow_set_impl call,
\* with the first_set_impl and may_miss calls it makes, recurses for ever.
C6_FollowReturns ==
    (FollowAnswered /\ AllDeclared(rules)) => result.st /= "diverge"

\* the union of the results of follow_set_impl on the branches
RECURSIVE C7_BranchUnion(_, _, _, _, _, _, _)
C7_BranchUnion(of, parent, xs, i, productions, strict, rs) ==
    IF i > Len(xs) THEN {}
    ELSE follow_set_impl(of, parent, xs[i], productions, strict, rs).set
           \cup C7_BranchUnion(of, parent, xs, i + 1, productions, strict, rs)

\* C7: on a rule whose right-hand side is a Choice, follow_set_impl returns
\* the union of its results on the branches, whatever the branches are: a
\* single literal, a single rule reference, a single Optional / Repeat term.
C7_ChoiceFollow ==
    (FollowAnswered /\ AllDeclared(rules)) =>
        \A j \in 1..Len(rules) :
            rules[j].expr.t = "Choice" =>
                /\ follow_set_impl(query.nt, rules[j].name, rules[j].expr,
                                   {rules[j].name}, query.strict, rules).st /= "panic"
                /\ \A k \in 1..Len(rules[j].expr.xs) :
                       follow_set_impl(query.nt, rules[j].name, rules[j].expr.xs[k],
                                       {rules[j].name}, query.strict, rules).st /= "panic"
                /\ follow_set_impl(query.nt, rules[j].name, rules[j].expr,
                                   {rules[j].name}, query.strict, rules).st = "ok" =>
                       follow_set_impl(query.nt, rules[j].name, rules[j].expr,
                                       {rules[j].name}, query.strict, rules).set
                         = C7_BranchUnion(query.nt, rules[j].name, rules[j].expr.xs, 1,
                                          {rules[j].name}, query.strict, rules)

\* C8: with `Z = A B?` and `B = 'y'` among the rules, a FOLLOW run for A
\* that returns holds y and every member of what the FOLLOW run for Z
\* returns; with `A = 'x' Z 'w'` as the only other rule both runs return.
C8_ReachThrough ==
    (/\ FollowAnswered
     /\ query.nt = A
     /\ Has(rules, Z, Sequence(<<Rule(A), Optional(Rule(B))>>))
     /\ Has(rules, B, Sequence(<<Literal(Y)>>))) =>
        /\ result.st = "ok" =>
              /\ Y \in result.set
              /\ follow_set(Z, query.strict, rules).st = "ok" =>
                    follow_set(Z, query.strict, rules).set \subseteq result.set
        /\ (Len(rules) = 3 /\ Has(rules, A, Sequence(<<Literal(X), Rule(Z), Literal(W)>>))) =>
              /\ result.st = "ok"
              /\ follow_set(Z, query.strict, rules) = FOk({W})

\* `A = 'x' Z 'w'`, `B = 'y'`, `Z = A B?`: w follows Z, so y and w follow A
C8_Witness ==
    /\ FollowAnswered
    /\ query.nt = A
    /\ rules = <<[name |-> A, expr |-> Sequence(<<Literal(X), Rule(Z), Literal(W)>>)],
                 [name |-> B, expr |-> Sequence(<<Literal(Y)>>)],
                 [name |-> Z, expr |-> Sequence(<<Rule(A), Optional(Rule(B))>>)]>>
    /\ result = FOk({W, Y})

\* the bodies of the Repeat elements of the Sequences that follow_set_impl
\* walks in a right-hand side: the Sequence itself, or the branches of a Choice
RECURSIVE RepeatsOf(_)
RepeatsOf(e) ==
    CASE e.t = "Sequence" -> {e.xs[i].x : i \in {k \in 1..Len(e.xs) : e.xs[k].t = "Repeat"}}
      [] e.t = "Choice" -> UNION {RepeatsOf(e.xs[i]) : i \in 1..Len(e.xs)}
      [] OTHER -> {}

RepeatBodies(rs) == UNION {RepeatsOf(rs[j].expr) : j \in 1..Len(rs)}

\* the Repeat bodies that produce `of` at their end
RepeatTails(rs, of) == {b \in RepeatBodies(rs) : produces_at_end(b, Rule(of))}

-----------------------------------------------------------------------------
(* Parsing                                                                 *)

\* a `|` immediately followed by the end of the input, by `)`, by another
\* `|`, or by the `Ident '='` of the next rule
DanglingPipe(ks) ==
    \E i \in 1..Len(ks) :
        /\ ks[i] = "Pipe"
        /\ \/ i = Len(ks)
           \/ ks[i + 1] \in {"ParenClose", "Pipe"}
           \/ i + 2 <= Len(ks) /\ ks[i + 1] = "Ident" /\ ks[i + 2] = "Equal"

\* C11: parse aborts on a token sequence that the grammar `expr := term
\* (('|' term)* | term*)` does not derive; in particular it never returns on
\* an input in which a `|` is followed by the end of the input, `)`, another
\* `|` or the `Ident '='` of the next rule.
C11_RejectsDanglingPipe ==
    DanglingPipe(TokenKinds(source)) => pc \in {"start", "panicked"}

\* C13: a run of n >= 2 terms followed by k >= 2 alternatives is built as one
\* Choice of k + 1 arms: the Sequence of the run, then each alternative.
C13_RunThenPipes ==
    (input.kind = "run" /\ Len(input.alts) >= 2 /\ pc = "built") =>
        rules[1].expr =
            Choice(<<Sequence([i \in 1..Len(input.terms) |-> input.terms[i].expr])>>
                   \o [i \in 1..Len(input.alts) |-> input.alts[i].expr])

-----------------------------------------------------------------------------
(* Undeclared rules                                                        *)

\* C12: first_set(name) fails fatally when `name` is not declared, and a
\* FIRST traversal that returns a set has visited declared rules only: on
\* reaching a Rule whose name has no entry it fails fatally; `A = B` with B
\* not declared fails for A.
C12_UndeclaredIsFatal ==
    FirstAnswered =>
        /\ query.nt \notin Names(rules) => result.st = "panic"
        /\ result.st = "ok" =>
              Range(first_set(query.nt, rules).prods) \subseteq Names(rules)
        /\ (/\ Has(rules, query.nt, Sequence(<<Rule(B)>>))
            /\ B \notin Names(rules)) => result.st = "panic"

\* first("B") on the grammar `A = 'x'`, which declares no B
C12_Witness ==
    /\ FirstAnswered
    /\ query.nt = B
    /\ rules = <<[name |-> A, expr |-> Sequence(<<Literal(X)>>)]>>
    /\ result.st = "panic"

-----------------------------------------------------------------------------
(* FOLLOW and the empty marker                                             *)

\* C14: a FOLLOW result never holds the empty marker, whatever the grammar,
\* the target and strict: the marker is removed from every FIRST set folded
\* into it, the one of the self-repetition correction included.
C14_NoEpsilonInFollow ==
    FollowAnswered => Epsilon \notin result.set

\* C15: after a match of A whose next element is beta, the FIRST set of the
\* element after beta is added only if beta may derive the empty string; for
\* `A = 'y'`, `B = 'y'`, `Z = A (B? 'x') 'w'`, where beta = (B? 'x') holds the
\* mandatory 'x', FOLLOW(A) is {y, x}: 'w' is not added.
C15_MandatoryStops ==
    (/\ FollowAnswered
     /\ query.nt = A
     /\ rules = <<[name |-> A, expr |-> Sequence(<<Literal(Y)>>)],
                  [name |-> B, expr |-> Sequence(<<Literal(Y)>>)],
                  [name |-> Z,
                   expr |-> Sequence(<<Rule(A),
                                       Sequence(<<Optional(Rule(B)), Literal(X)>>),
                                       Literal(W)>>)]>>) =>
        result = FOk({Y, X})

-----------------------------------------------------------------------------
(* The event log                                                           *)

\* Open events minus Close events among the first n events
Depth(evs, n) ==
    Cardinality({i \in 1..n : evs[i].e = "Open"})
      - Cardinality({i \in 1..n : evs[i].e = "Close"})

WellNested(evs) ==
    /\ \A n \in 0..Len(evs) : Depth(evs, n) >= 0
    /\ Depth(evs, Len(evs)) = 0

NoPlaceholder(evs) ==
    \A i \in 1..Len(evs) : evs[i].e = "Open" => evs[i].kind /= "Error"

\* a Rule node: an identifier token, then an expression tree
RuleShaped(child) ==
    /\ child.c = "Tree"
    /\ child.tree.kind = "Rule"
    /\ Len(child.tree.children) = 2
    /\ child.tree.children[1].c = "Token"
    /\ child.tree.children[1].token.kind = "Ident"
    /\ child.tree.children[2].c = "Tree"
    /\ child.tree.children[2].tree.kind \in {"Sequence", "Branch"}

GrammarShaped(t) ==
    /\ t.kind = "Grammar"
    /\ \A i \in 1..Len(t.children) : RuleShaped(t.children[i])

\* C16: after parse returned, the event log is well nested (no prefix closes
\* more than it opens, the totals are equal), no Open keeps the placeholder
\* kind Error, and the replay of tree() pops no empty stack and leaves one
\* root of kind Grammar whose children are Rule nodes, each an identifier
\* token followed by an expression tree.
C16_WellNestedLog ==
    /\ pc \in {"parsed", "tree", "built"} =>
          /\ WellNested(events)
          /\ NoPlaceholder(events)
          /\ ~Parser_tree(events).panic
          /\ Parser_tree(events).left = 0
          /\ GrammarShaped(Parser_tree(events).tree)
    /\ pc \in {"tree", "built"} => tree = Parser_tree(events).tree

\* `A = B ('d' B)* | (B | 'd')?` was parsed: the run was regrouped by
\* open_before, and so were the two groups with a suffix
C16_Witness ==
    /\ pc = "parsed"
    /\ input.kind = "run"
    /\ input.terms = <<TermB, TermRepS>>
    /\ input.alts = <<AltOptC>>
    /\ ~input.more
    /\ Len(events) = 31
    /\ events[5] = EvOpen("Branch")
    /\ events[6] = EvOpen("Sequence")
    /\ events[9] = EvOpen("ZeroOrMore")
    /\ events[20] = EvOpen("Optional")

====
